---- MODULE Spec2Model ----
(***************************************************************************)
(* Model of scripts/generate_8b10b_mem_files.py: the 8B/10B code-group     *)
(* text file is parsed into two dictionaries, four 256-entry encoder       *)
(* arrays and two 1024-entry decoder arrays are built from them, and six   *)
(* .mem artifacts are written.                                             *)
(*                                                                         *)
(* Text is modelled as sequences of one-character strings, so that         *)
(* concatenation, int(s, base) and format(n, '08b') are computed.  A line  *)
(* is the sequence of its whitespace-separated tokens (what strip() and    *)
(* split() leave of it).  A Python dict is a sequence of key/value pairs   *)
(* in insertion order.  A list that is not allocated yet is <<>>.          *)
(***************************************************************************)
EXTENDS Integers, Sequences, FiniteSets, TLC

VARIABLES input, pc, report, data_codes, ctrl_codes,
          data_rd_neg, data_rd_pos, ctrl_rd_neg, ctrl_rd_pos,
          rd_neg_lookup, rd_pos_lookup, decode_rd_neg, decode_rd_pos, files

vars == <<input, pc, report, data_codes, ctrl_codes,
          data_rd_neg, data_rd_pos, ctrl_rd_neg, ctrl_rd_pos,
          rd_neg_lookup, rd_pos_lookup, decode_rd_neg, decode_rd_pos, files>>

\* Longest input file explored, in lines.
MaxLines == 3

EncDepth == 256
DecDepth == 1024

-----------------------------------------------------------------------------
\* Text helpers

ZeroCode == <<"0", "0", "0", "0", "0", "0", "0", "0", "0", "0">>

HexChars == <<"0", "1", "2", "3", "4", "5", "6", "7", "8", "9",
              "A", "B", "C", "D", "E", "F">>
HexCharsLower == <<"0", "1", "2", "3", "4", "5", "6", "7", "8", "9",
                   "a", "b", "c", "d", "e", "f">>

IsDigit(c, base) ==
    \E i \in 1..base : HexChars[i] = c \/ HexCharsLower[i] = c

\* Value of one digit; 0 for a character that is no digit (PyInt is not
\* evaluated on such a string by the program: int() raises instead).
DigitVal(c, base) ==
    IF IsDigit(c, base)
    THEN (CHOOSE i \in 1..base : HexChars[i] = c \/ HexCharsLower[i] = c) - 1
    ELSE 0

RECURSIVE DigitsVal(_, _)
DigitsVal(s, base) ==
    IF s = <<>> THEN 0
    ELSE DigitsVal(SubSeq(s, 1, Len(s) - 1), base) * base
         + DigitVal(s[Len(s)], base)

IntBody(s) == IF s # <<>> /\ s[1] \in {"+", "-"} THEN Tail(s) ELSE s

\* Faulty variant of IntValid: no token is rejected.
IntValid_Unchecked(s, base) == TRUE

\* int(s, base) raises ValueError unless s is an optional sign followed by
\* at least one digit of the base.  (The 0x/0b prefixes and '_' separators
\* int() also accepts need characters no modelled token contains.)
IntValid(s, base) ==
    /\ IntBody(s) # <<>>
    /\ \A i \in 1..Len(IntBody(s)) : IsDigit(IntBody(s)[i], base)

PyInt(s, base) ==
    IF s # <<>> /\ s[1] = "-" THEN 0 - DigitsVal(IntBody(s), base)
    ELSE DigitsVal(IntBody(s), base)

RECURSIVE BinDigits(_)
BinDigits(n) ==
    IF n < 2 THEN <<HexChars[n + 1]>>
    ELSE BinDigits(n \div 2) \o <<HexChars[(n % 2) + 1]>>

RECURSIVE ZeroPad(_, _)
ZeroPad(s, width) == IF Len(s) >= width THEN s ELSE ZeroPad(<<"0">> \o s, width)

\* format(n, '08b'): sign-aware zero padding to a minimum width of 8.
Format08b(n) ==
    IF n < 0 THEN <<"-">> \o ZeroPad(BinDigits(0 - n), 7)
    ELSE ZeroPad(BinDigits(n), 8)

-----------------------------------------------------------------------------
\* dict helpers: a dict is a sequence of [key, val] in insertion order

DictHas(d, k) == \E i \in 1..Len(d) : d[i].key = k

\* Faulty variant of DictSet: the first value of a key is kept.
DictSet_KeepFirst(d, k, v) ==
    IF DictHas(d, k) THEN d ELSE Append(d, [key |-> k, val |-> v])

\* Faulty variant of DictSet: an existing key moves to the end.
DictSet_MoveToEnd(d, k, v) ==
    Append(SelectSeq(d, LAMBDA e : e.key # k), [key |-> k, val |-> v])

\* Faulty variant of DictSet: the old item of the key is kept beside the new one.
DictSet_AppendAlways(d, k, v) == Append(d, [key |-> k, val |-> v])

\* d[k] = v: an existing key keeps its position, a new key goes last.
DictSet(d, k, v) ==
    IF DictHas(d, k)
    THEN [i \in 1..Len(d) |-> IF d[i].key = k THEN [key |-> k, val |-> v] ELSE d[i]]
    ELSE Append(d, [key |-> k, val |-> v])

-----------------------------------------------------------------------------
\* The lines the input file is made of

CodeA6 == <<"1", "1", "0", "0", "1", "0">>
CodeB6 == <<"0", "0", "1", "1", "0", "1">>
CodeBad6 == <<"1", "1", "0", "0", "1", "2">>
Code04 == <<"0", "1", "0", "1">>
Zero6  == <<"0", "0", "0", "0", "0", "0">>
Zero4  == <<"0", "0", "0", "0">>

NameD  == <<"D", "1", "2", ".", "3">>
NameD2 == <<"D", "1", "3", ".", "0">>
NameK  == <<"K", "2", "8", ".", "5">>
NameX  == <<"X", "1">>

Hex0C  == <<"0", "C">>
Hex0D  == <<"0", "D">>
HexBC  == <<"B", "C">>
HexZZ  == <<"Z", "Z">>
Hex100 == <<"1", "0", "0">>

LineExample  == <<NameD, Hex0C, CodeA6, Code04, CodeB6, Code04>>
LineRedefine == <<NameD, Hex0C, CodeB6, Code04, CodeA6, Code04>>
LineCollide  == <<NameD2, Hex0D, CodeA6, Code04, Zero6, Zero4>>
LineCtrl     == <<NameK, HexBC, CodeA6, Code04, CodeB6, Zero4>>
LineOther    == <<NameX, Hex0C, CodeB6, Code04, CodeB6, Code04>>
LineBadHex   == <<NameX, HexZZ, CodeA6, Code04, CodeB6, Code04>>
LineBadBit   == <<NameD, Hex0D, CodeBad6, Code04, CodeB6, Code04>>
LineWidth    == <<NameK, Hex0C, <<"0">> \o CodeA6, Code04, CodeA6 \o <<"1">>, Code04>>
LineRange    == <<NameD, Hex100, CodeB6, Code04, CodeA6, Code04>>
LineComment  == <<<<"#", "D">>, HexZZ, CodeA6, Code04, CodeB6, Code04>>
LineShort    == <<NameD, HexZZ, CodeA6, Code04, CodeB6>>

Lines == {LineExample, LineRedefine, LineCollide, LineCtrl, LineOther,
          LineBadHex, LineBadBit, LineWidth, LineRange,
          LineComment, LineShort}

-----------------------------------------------------------------------------
\* parse_code_groups_file

\* line.startswith('#') or not line; len(parts) != 6
Skipped(line) == line = <<>> \/ line[1][1] = "#" \/ Len(line) # 6

StartsWith(name, c) == name[1] = c

CodeInfo(line) ==
    [rd_neg |-> line[3] \o line[4], rd_pos |-> line[5] \o line[6], name |-> line[1]]

Init ==
    /\ input = <<>>
    /\ pc = "parse"
    /\ report = "none"
    /\ data_codes = <<>>
    /\ ctrl_codes = <<>>
    /\ data_rd_neg = <<>>
    /\ data_rd_pos = <<>>
    /\ ctrl_rd_neg = <<>>
    /\ ctrl_rd_pos = <<>>
    /\ rd_neg_lookup = <<>>
    /\ rd_pos_lookup = <<>>
    /\ decode_rd_neg = <<>>
    /\ decode_rd_pos = <<>>
    /\ files = <<>>

\* open() raises FileNotFoundError: (None, None) is returned and main stops.
FileNotFound ==
    /\ pc = "parse"
    /\ input = <<>>
    /\ pc' = "parse_failed"
    /\ report' = "not_found"
    /\ UNCHANGED <<input, data_codes, ctrl_codes, data_rd_neg, data_rd_pos,
                   ctrl_rd_neg, ctrl_rd_pos, rd_neg_lookup, rd_pos_lookup,
                   decode_rd_neg, decode_rd_pos, files>>

\* One iteration of the loop over the file's lines.  A ValueError of
\* int(octet_hex, 16) is caught: (None, None) is returned in place of the
\* two tables, and main stops.
ParseLine ==
    /\ pc = "parse"
    /\ Len(input) < MaxLines
    /\ \E line \in Lines :
        /\ input' = Append(input, line)
        /\ IF Skipped(line)
           THEN UNCHANGED <<pc, report, data_codes, ctrl_codes>>
           ELSE IF ~IntValid(line[2], 16)
           THEN /\ pc' = "parse_failed"
                /\ report' = "parse_error"
                /\ data_codes' = <<>>
                /\ ctrl_codes' = <<>>
           ELSE /\ UNCHANGED <<pc, report>>
                /\ IF StartsWith(line[1], "D")
                   THEN /\ data_codes' = DictSet(data_codes, PyInt(line[2], 16), CodeInfo(line))
                        /\ UNCHANGED ctrl_codes
                   ELSE IF StartsWith(line[1], "K")
                   THEN /\ ctrl_codes' = DictSet(ctrl_codes, PyInt(line[2], 16), CodeInfo(line))
                        /\ UNCHANGED data_codes
                   ELSE UNCHANGED <<data_codes, ctrl_codes>>
    /\ UNCHANGED <<data_rd_neg, data_rd_pos, ctrl_rd_neg, ctrl_rd_pos,
                   rd_neg_lookup, rd_pos_lookup, decode_rd_neg, decode_rd_pos, files>>

\* Faulty variant of ParseEnd: the encoder's files are written before its arrays
\* are filled.
ParseEnd_SkipsFill ==
    /\ pc = "parse"
    /\ pc' = "enc_write"
    /\ UNCHANGED <<input, report, data_codes, ctrl_codes, data_rd_neg, data_rd_pos,
                   ctrl_rd_neg, ctrl_rd_pos, rd_neg_lookup, rd_pos_lookup,
                   decode_rd_neg, decode_rd_pos, files>>

\* End of file: the two tables are returned and main goes on to the encoder.
ParseEnd ==
    /\ pc = "parse"
    /\ pc' = "enc_fill"
    /\ UNCHANGED <<input, report, data_codes, ctrl_codes, data_rd_neg, data_rd_pos,
                   ctrl_rd_neg, ctrl_rd_pos, rd_neg_lookup, rd_pos_lookup,
                   decode_rd_neg, decode_rd_pos, files>>

-----------------------------------------------------------------------------
\* Python lists

\* lst[k] raises IndexError outside -len..len-1; a negative k counts from
\* the end.
IndexOk(k, n) == k >= 0 - n /\ k < n

PyIndex(k, n) == IF k < 0 THEN k + n ELSE k

NewArray(n) == [a \in 0..(n - 1) |-> ZeroCode]

-----------------------------------------------------------------------------
\* write_encoder_mem_files

EncoderFiles == <<"data_table_rd_neg.mem", "data_table_rd_pos.mem",
                  "ctrl_table_rd_neg.mem", "ctrl_table_rd_pos.mem">>

EncIndexOk(item) == IndexOk(item.key, EncDepth)

\* Number of leading items of codes the fill loop handles, from item i on,
\* before an IndexError leaves it.
RECURSIVE EncHandled(_, _)
EncHandled(codes, i) ==
    IF i > Len(codes) \/ ~EncIndexOk(codes[i]) THEN i - 1
    ELSE EncHandled(codes, i + 1)

\* for octet, info in codes.items(): array[octet] = info[field], over the
\* first n items.
RECURSIVE FillEncode(_, _, _)
FillEncode(codes, n, field) ==
    IF n = 0 THEN NewArray(EncDepth)
    ELSE [FillEncode(codes, n - 1, field)
            EXCEPT ![PyIndex(codes[n].key, EncDepth)] = codes[n].val[field]]

\* The four arrays are allocated and filled, data codes first.  An octet
\* that is no index of a 256-entry list raises IndexError, which nothing
\* catches.
EncoderFill ==
    /\ pc = "enc_fill"
    /\ LET nd == EncHandled(data_codes, 1)
           nc == IF nd = Len(data_codes) THEN EncHandled(ctrl_codes, 1) ELSE 0
       IN  /\ data_rd_neg' = FillEncode(data_codes, nd, "rd_neg")
           /\ data_rd_pos' = FillEncode(data_codes, nd, "rd_pos")
           /\ ctrl_rd_neg' = FillEncode(ctrl_codes, nc, "rd_neg")
           /\ ctrl_rd_pos' = FillEncode(ctrl_codes, nc, "rd_pos")
           /\ IF nd = Len(data_codes) /\ nc = Len(ctrl_codes)
              THEN pc' = "enc_write" /\ UNCHANGED report
              ELSE pc' = "crashed" /\ report' = "traceback"
    /\ UNCHANGED <<input, data_codes, ctrl_codes, rd_neg_lookup, rd_pos_lookup,
                   decode_rd_neg, decode_rd_pos, files>>

\* The four artifacts of the encoder are written, in this order (the lines
\* of each are its array's entries in address order); main then calls the
\* decoder.
WriteEncoderFiles ==
    /\ pc = "enc_write"
    /\ files' = files \o EncoderFiles
    /\ pc' = "dec_fill"
    /\ UNCHANGED <<input, report, data_codes, ctrl_codes, data_rd_neg, data_rd_pos,
                   ctrl_rd_neg, ctrl_rd_pos, rd_neg_lookup, rd_pos_lookup,
                   decode_rd_neg, decode_rd_pos>>

-----------------------------------------------------------------------------
\* write_decoder_mem_files

DecoderFiles == <<"decode_table_rd_neg.mem", "decode_table_rd_pos.mem">>

Tagged(codes, ctl) ==
    [i \in 1..Len(codes) |-> [key |-> codes[i].key, val |-> codes[i].val, ctl |-> ctl]]

\* lookup[info[field]] = {'data': octet, 'is_control': ctl} over the first n
\* items.
RECURSIVE LookupFrom(_, _, _)
LookupFrom(items, n, field) ==
    IF n = 0 THEN <<>>
    ELSE DictSet(LookupFrom(items, n - 1, field), items[n].val[field],
                 [data |-> items[n].key, is_control |-> items[n].ctl])

\* Faulty variant of BuildLookup: the control codes are processed first.
BuildLookup_ControlFirst(data, ctrl, field) ==
    LookupFrom(Tagged(ctrl, TRUE) \o Tagged(data, FALSE),
               Len(data) + Len(ctrl), field)

\* The data codes are processed first, then the control codes.
BuildLookup(data, ctrl, field) ==
    LookupFrom(Tagged(data, FALSE) \o Tagged(ctrl, TRUE),
               Len(data) + Len(ctrl), field)

\* code_int < 1024
SafetyCheck(code_int) == code_int < DecDepth

\* int(code_str, 2) raises ValueError for a string that is no binary
\* number, and a code_int below -1024 is no index of the list.
DecItemOk(item) ==
    /\ IntValid(item.key, 2)
    /\ SafetyCheck(PyInt(item.key, 2)) => IndexOk(PyInt(item.key, 2), DecDepth)

\* Number of leading items of lookup the fill loop handles, from item i on,
\* before an exception leaves it.
RECURSIVE DecHandled(_, _)
DecHandled(lookup, i) ==
    IF i > Len(lookup) \/ ~DecItemOk(lookup[i]) THEN i - 1
    ELSE DecHandled(lookup, i + 1)

\* Faulty variant of PackEntry: the control bit is never set.
PackEntry_NoControlBit(info) == <<"1", "0">> \o Format08b(info.data)

PackEntry(info) ==
    <<"1">> \o <<IF info.is_control THEN "1" ELSE "0">> \o Format08b(info.data)

RECURSIVE FillDecode(_, _)
FillDecode(lookup, n) ==
    IF n = 0 THEN NewArray(DecDepth)
    ELSE IF SafetyCheck(PyInt(lookup[n].key, 2))
    THEN [FillDecode(lookup, n - 1)
            EXCEPT ![PyIndex(PyInt(lookup[n].key, 2), DecDepth)] = PackEntry(lookup[n].val)]
    ELSE FillDecode(lookup, n - 1)

\* The two reverse lookups are built, both arrays are allocated, then the
\* RD- and the RD+ table are filled.  Nothing catches the ValueError of
\* int(code_str, 2).
DecoderFill ==
    /\ pc = "dec_fill"
    /\ rd_neg_lookup' = BuildLookup(data_codes, ctrl_codes, "rd_neg")
    /\ rd_pos_lookup' = BuildLookup(data_codes, ctrl_codes, "rd_pos")
    /\ LET nn == DecHandled(rd_neg_lookup', 1)
           np == IF nn = Len(rd_neg_lookup') THEN DecHandled(rd_pos_lookup', 1) ELSE 0
       IN  /\ decode_rd_neg' = FillDecode(rd_neg_lookup', nn)
           /\ decode_rd_pos' = FillDecode(rd_pos_lookup', np)
           /\ IF nn = Len(rd_neg_lookup') /\ np = Len(rd_pos_lookup')
              THEN pc' = "dec_write" /\ UNCHANGED report
              ELSE pc' = "crashed" /\ report' = "traceback"
    /\ UNCHANGED <<input, data_codes, ctrl_codes, data_rd_neg, data_rd_pos,
                   ctrl_rd_neg, ctrl_rd_pos, files>>

\* The two artifacts of the decoder are written and main reports success.
WriteDecoderFiles ==
    /\ pc = "dec_write"
    /\ files' = files \o DecoderFiles
    /\ pc' = "done"
    /\ report' = "success"
    /\ UNCHANGED <<input, data_codes, ctrl_codes, data_rd_neg, data_rd_pos,
                   ctrl_rd_neg, ctrl_rd_pos, rd_neg_lookup, rd_pos_lookup,
                   decode_rd_neg, decode_rd_pos>>

Next ==
    \/ FileNotFound
    \/ ParseLine
    \/ ParseEnd
    \/ EncoderFill
    \/ WriteEncoderFiles
    \/ DecoderFill
    \/ WriteDecoderFiles

Spec == Init /\ [][Next]_vars

-----------------------------------------------------------------------------
\* Vocabulary of the properties, over the lines read so far

Classes == {"data", "control"}
Disparities == {"rd_neg", "rd_pos"}

HexDigitSet == {"0", "1", "2", "3", "4", "5", "6", "7", "8", "9",
                "A", "B", "C", "D", "E", "F", "a", "b", "c", "d", "e", "f"}

\* A 6-token line that is no comment.
RecordLine(l) == Len(l) = 6 /\ l[1][1] # "#"

ClassOf(l) ==
    IF l[1][1] = "D" THEN "data" ELSE IF l[1][1] = "K" THEN "control" ELSE "other"

\* A hexadecimal numeral, with or without a sign.
IsHexNumeral(t) ==
    LET b == IF t[1] \in {"+", "-"} THEN Tail(t) ELSE t
    IN  b # <<>> /\ \A i \in 1..Len(b) : b[i] \in HexDigitSet

IsBitString(t) == \A i \in 1..Len(t) : t[i] \in {"0", "1"}

Is10Bit(c) == Len(c) = 10 /\ IsBitString(c)

OctetOf(l) == PyInt(l[2], 16)

CodeOf(l, rd) == IF rd = "rd_neg" THEN l[3] \o l[4] ELSE l[5] \o l[6]

OctetInRange(l) ==
    /\ \A i \in 1..Len(l[2]) : l[2][i] \in HexDigitSet
    /\ OctetOf(l) \in 0..255

\* A record as the data model has it: an octet in [0,255], a 6-bit and a
\* 4-bit token for each disparity.
ValidRecord(l) ==
    /\ RecordLine(l)
    /\ OctetInRange(l)
    /\ IsBitString(l[3]) /\ Len(l[3]) = 6
    /\ IsBitString(l[4]) /\ Len(l[4]) = 4
    /\ IsBitString(l[5]) /\ Len(l[5]) = 6
    /\ IsBitString(l[6]) /\ Len(l[6]) = 4

AllValid == \A i \in 1..Len(input) : RecordLine(input[i]) => ValidRecord(input[i])

\* The lines that are records of class T.
RecordsOf(T) == {i \in 1..Len(input) : RecordLine(input[i]) /\ ClassOf(input[i]) = T}

\* The records of the final table of class T: those no later line of the
\* class redefines.
FinalIdx(T) ==
    {i \in RecordsOf(T) :
        \A j \in RecordsOf(T) : j > i => OctetOf(input[j]) # OctetOf(input[i])}

\* The line that first defined the octet of record i in its class.
FirstIdx(i) ==
    CHOOSE j \in RecordsOf(ClassOf(input[i])) :
        /\ OctetOf(input[j]) = OctetOf(input[i])
        /\ \A k \in RecordsOf(ClassOf(input[i])) :
              OctetOf(input[k]) = OctetOf(input[i]) => k >= j

Table(T) == IF T = "data" THEN data_codes ELSE ctrl_codes

EncArray(T, rd) ==
    IF T = "data" THEN (IF rd = "rd_neg" THEN data_rd_neg ELSE data_rd_pos)
    ELSE (IF rd = "rd_neg" THEN ctrl_rd_neg ELSE ctrl_rd_pos)

DecArray(rd) == IF rd = "rd_neg" THEN decode_rd_neg ELSE decode_rd_pos

Allocated(arr) == DOMAIN arr # {}

\* The decode entry a code addresses.
DecAddr(c) == PyIndex(PyInt(c, 2), DecDepth)

Bin8(n) == [i \in 1..8 |-> IF (n \div (2 ^ (8 - i))) % 2 = 1 THEN "1" ELSE "0"]

\* {valid = 1, control, 8-bit data}
Packed(ctl, n) == <<"1", IF ctl THEN "1" ELSE "0">> \o Bin8(n)

\* arr holds '0000000000' at every address outside S.
RECURSIVE Overlay(_, _, _)
Overlay(base, arr, S) ==
    IF S = {} THEN base
    ELSE LET a == CHOOSE x \in S : TRUE
         IN  Overlay([base EXCEPT ![a] = arr[a]], arr, S \ {a})

DefaultOutside(arr, S) ==
    arr = Overlay([a \in DOMAIN arr |-> ZeroCode], arr, S \cap DOMAIN arr)

EncoderDone == pc \in {"enc_write", "dec_fill", "dec_write", "done"}
DecoderDone == pc \in {"dec_write", "done"}
Ended == pc \in {"parse_failed", "crashed", "done"}

-----------------------------------------------------------------------------
\* C1 (as amended): in a run that is parsed and generated without abort,
\* for every table T, disparity R and record of T with octetValue A in
\* 0..255 whose R-code C the encode array of (T, R) holds at A, if C is a
\* bit string below 1024 and no other record of either table has an R-code
\* addressing the same decode entry, the decode array for R holds at
\* integer(C) valid = 1, control = (T is the control table), data = A.
C1_RoundTripUnique ==
    DecoderDone =>
        \A T \in Classes, rd \in Disparities : \A i \in 1..Len(Table(T)) :
            LET A == Table(T)[i].key
                C == Table(T)[i].val[rd]
            IN  ( /\ A \in 0..255
                  /\ EncArray(T, rd)[A] = C
                  /\ IsBitString(C)
                  /\ PyInt(C, 2) < DecDepth
                  /\ \A T2 \in Classes : \A j \in 1..Len(Table(T2)) :
                        (T2 # T \/ j # i) => DecAddr(Table(T2)[j].val[rd]) # PyInt(C, 2) )
                => DecArray(rd)[PyInt(C, 2)] = Packed(T = "control", A)

\* C1 (as stated), on inputs of valid records: every populated encode
\* entry (T, R, A, C) has at integer(C) of the decode array for R valid = 1,
\* control = (T is the control table), data = A.
C1_RoundTripEveryEntry ==
    (pc = "done" /\ AllValid) =>
        \A T \in Classes, rd \in Disparities : \A A \in 0..(EncDepth - 1) :
            EncArray(T, rd)[A] # ZeroCode =>
                DecArray(rd)[PyInt(EncArray(T, rd)[A], 2)] = Packed(T = "control", A)

\* A finished run in which a control code that no other record carries
\* round-trips, while a data code is shadowed by the control record that
\* shares it.
C1_Witness ==
    /\ pc = "done"
    /\ input = <<LineExample, LineCtrl>>
    /\ ctrl_rd_pos[188] = CodeB6 \o Zero4
    /\ decode_rd_pos[208] = Packed(TRUE, 188)
    /\ data_rd_neg[12] = CodeA6 \o Code04
    /\ decode_rd_neg[805] = Packed(TRUE, 188)

\* C2: once a 6-token, non-comment line whose octetHex is no hexadecimal
\* numeral has been read, whatever its name prefix and whatever precedes
\* it, the run is in the reported parse-failure state and no artifact is
\* written.
C2_BadHexAborts ==
    \A i \in 1..Len(input) :
        (RecordLine(input[i]) /\ ~IsHexNumeral(input[i][2])) =>
            /\ pc = "parse_failed"
            /\ report = "parse_error"
            /\ files = <<>>

\* Two valid records were stored, then the bad octet ended the run.
C2_Witness ==
    /\ input = <<LineExample, LineCtrl, LineBadHex>>
    /\ pc = "parse_failed"
    /\ files = <<>>

\* C3 (as stated), on inputs whose octets are all valid: a run that has
\* read a data or control record one of whose four disparity tokens is no
\* bit string ends in the reported parse failure with no artifact written.
C3_BadDisparityAbortsAtParse ==
    \A i \in 1..Len(input) :
        ( /\ Ended
          /\ \A j \in 1..Len(input) : RecordLine(input[j]) => OctetInRange(input[j])
          /\ RecordLine(input[i])
          /\ ClassOf(input[i]) \in Classes
          /\ \E t \in 3..6 : ~IsBitString(input[i][t]) )
        => (pc = "parse_failed" /\ files = <<>>)

\* C4 (as amended): for every input of valid records, class T and
\* disparity R, the encode array of (T, R) holds at each address A the
\* R-code of the last-parsed record of class T with octetValue A when the
\* input has such a record, and '0000000000' at every other address.
C4_EncoderPopulation ==
    (EncoderDone /\ AllValid) =>
        \A T \in Classes :
            LET fin == FinalIdx(T)
                present == {OctetOf(input[i]) : i \in fin}
            IN  \A rd \in Disparities :
                    /\ DOMAIN EncArray(T, rd) = 0..(EncDepth - 1)
                    /\ \A i \in fin :
                          EncArray(T, rd)[OctetOf(input[i])] = CodeOf(input[i], rd)
                    /\ DefaultOutside(EncArray(T, rd), present)

\* C4 (as stated): in addition, the entry at A is non-default exactly when
\* the input has a record of class T with octetValue A.
C4_NonDefaultIffPresent ==
    (EncoderDone /\ AllValid) =>
        \A T \in Classes :
            LET fin == FinalIdx(T)
                present == {OctetOf(input[i]) : i \in fin}
            IN  \A rd \in Disparities :
                    /\ \A A \in present : EncArray(T, rd)[A] # ZeroCode
                    /\ DefaultOutside(EncArray(T, rd), present)

\* The encode arrays of an input that redefines octet 0C hold the later
\* line's codes.
C4_Witness ==
    /\ pc = "enc_write"
    /\ input = <<LineExample, LineCtrl, LineRedefine>>
    /\ data_rd_neg[12] = CodeB6 \o Code04
    /\ data_rd_pos[12] = CodeA6 \o Code04
    /\ ctrl_rd_neg[188] = CodeA6 \o Code04

C6_ControlWins ==
    DecoderDone =>
        LET fd == FinalIdx("data")
            fc == FinalIdx("control")
        IN  \A rd \in Disparities : \A i \in fd : \A j \in fc :
                LET C == CodeOf(input[j], rd)
                IN  ( /\ CodeOf(input[i], rd) = C
                      /\ Is10Bit(C)
                      /\ OctetOf(input[j]) \in 0..255
                      /\ \A k \in fd \cup fc :
                            DecAddr(CodeOf(input[k], rd)) = PyInt(C, 2)
                                => CodeOf(input[k], rd) = C
                      /\ \A k \in fc :
                            CodeOf(input[k], rd) = C => FirstIdx(k) <= FirstIdx(j) )
                    => /\ DecArray(rd)[PyInt(C, 2)] = Packed(TRUE, OctetOf(input[j]))
                       /\ report \in {"none", "success"}

\* The control line comes first in the input and still wins the entry.
C6_Witness ==
    /\ pc = "done"
    /\ input = <<LineCtrl, LineExample>>
    /\ decode_rd_neg[805] = Packed(TRUE, 188)
    /\ data_rd_neg[12] = ctrl_rd_neg[188]

\* C7 (as amended): if records of one class with different octetValues
\* carry the same 10-bit code under disparity R (no record addressing that
\* decode entry with another code string, and for data records no control
\* record carrying the code), the decode array for R holds at the code's
\* address the octetValue of the one whose octetValue FIRST appeared latest
\* in the input: a later line that redefines an octetValue already in the
\* table leaves it at its old place in the processing order.
C7_LastInsertedKeyWins ==
    DecoderDone =>
        LET fd == FinalIdx("data")
            fc == FinalIdx("control")
        IN  \A T \in Classes : \A rd \in Disparities :
              \A i \in FinalIdx(T) : \A j \in FinalIdx(T) :
                LET C == CodeOf(input[j], rd)
                IN  ( /\ i # j
                      /\ CodeOf(input[i], rd) = C
                      /\ Is10Bit(C)
                      /\ OctetOf(input[j]) \in 0..255
                      /\ \A k \in fd \cup fc :
                            DecAddr(CodeOf(input[k], rd)) = PyInt(C, 2)
                                => CodeOf(input[k], rd) = C
                      /\ T = "data" => \A k \in fc : CodeOf(input[k], rd) # C
                      /\ \A k \in FinalIdx(T) :
                            CodeOf(input[k], rd) = C => FirstIdx(k) <= FirstIdx(j) )
                    => DecArray(rd)[PyInt(C, 2)] = Packed(T = "control", OctetOf(input[j]))

\* C7 (as stated), on inputs of valid records: of the records of one class
\* that carry the same code, with no control record shadowing them, the one
\* on the latest line of the input holds the decode entry.
C7_LaterLineWins ==
    (DecoderDone /\ AllValid) =>
        LET fc == FinalIdx("control")
        IN  \A T \in Classes : \A rd \in Disparities :
              \A i \in FinalIdx(T) : \A j \in FinalIdx(T) :
                LET C == CodeOf(input[j], rd)
                IN  ( /\ i # j
                      /\ CodeOf(input[i], rd) = C
                      /\ T = "data" => \A k \in fc : CodeOf(input[k], rd) # C
                      /\ \A k \in FinalIdx(T) : CodeOf(input[k], rd) = C => k <= j )
                    => DecArray(rd)[PyInt(C, 2)] = Packed(T = "control", OctetOf(input[j]))

\* Octet 0C is defined first, redefined last, and octet 0D, which entered
\* the table after it, holds the entry of the code they share.
C7_Witness ==
    /\ pc = "done"
    /\ input = <<LineExample, LineCollide, LineExample>>
    /\ decode_rd_neg[805] = Packed(FALSE, 13)

\* C8: in each allocated decode array for disparity R, every address that
\* is not the integer value of the R-code of a record of the final tables
\* holds '0000000000'; so the codes of records a later line of the same
\* octetValue has overwritten leave no valid entry.
C8_DecoderSound ==
    \A rd \in Disparities :
        Allocated(DecArray(rd)) =>
            LET fin == FinalIdx("data") \cup FinalIdx("control")
                used == {PyInt(CodeOf(input[i], rd), 2) :
                            i \in {k \in fin : IsBitString(CodeOf(input[k], rd))}}
            IN  /\ DOMAIN DecArray(rd) = 0..(DecDepth - 1)
                /\ DefaultOutside(DecArray(rd), used)

\* Octet 0C was redefined: the code of the overwritten line has no valid
\* entry, the code of the later line has one.
C8_Witness ==
    /\ pc = "done"
    /\ input = <<LineExample, LineRedefine>>
    /\ decode_rd_neg[805] = ZeroCode
    /\ decode_rd_neg[213] = Packed(FALSE, 12)

\* C9 (as stated): every key of dataTable and of ctrlTable is an integer in
\* [0,255].
C9_OctetKeysInRange ==
    \A T \in Classes : \A i \in 1..Len(Table(T)) : Table(T)[i].key \in 0..255

\* C10 (as stated): every code stored in dataTable or ctrlTable, and every
\* entry of the four encode arrays, is exactly 10 characters of '0'/'1'.
C10_CodesAreTenBits ==
    \A T \in Classes : \A rd \in Disparities :
        /\ \A i \in 1..Len(Table(T)) : Is10Bit(Table(T)[i].val[rd])
        /\ Allocated(EncArray(T, rd)) =>
              \A A \in 0..(EncDepth - 1) : Is10Bit(EncArray(T, rd)[A])

====
